---------------------------- MODULE Spec2Model ----------------------------
(***************************************************************************)
(* The span store of tracing-subscriber's fmt subscriber                   *)
(* (tracing-subscriber/src/fmt/span.rs): a slab of span slots with a       *)
(* Treiber-style free list threaded through the empty slots, per-slot      *)
(* reader/writer locks, atomic reference counts, the thread-local stack    *)
(* of entered spans (CONTEXT) and the root-to-leaf walk of visit_spans.    *)
(*                                                                         *)
(* Identifiers are 1-based (idx_to_id), slab indices and the free-list     *)
(* head are 0-based as in the source.  slab[id] is the slot at index       *)
(* id - 1.                                                                 *)
(***************************************************************************)
EXTENDS Integers, Sequences, FiniteSets

(* ------------------------------ bounds -------------------------------- *)

\* Largest slab length explored (new_span is not started beyond it).
MaxSlab == 3

\* Width, in bits, of the modelled usize of Data::ref_count (64 in the
\* build; scaled down, wrapping arithmetic kept).
UsizeBits == 3

\* No further clone of a span is started once its count has been
\* decremented this many times (caps the number of references).
MaxDecr == 2

\* Largest length of a slot's field buffer, in rendered chunks.
MaxFields == 2

\* The same bounds for the concurrent specification.
ConcSlab == 2

ConcDecr == 1

Threads == {1, 2, 3}

\* The threads of the specifications in which every thread runs every operation.
Workers == {1, 2}

UsizeMod == 2 ^ UsizeBits

Ids == 1..MaxSlab

\* Option::None for an Option<usize> / Option<Id>.
None == 0 - 1
NoId == 0

VARIABLES
    slab,      \* Slab::slab: the sequence of Slots (contents)
    next,      \* Store::next: head of the free list (a slab index)
    inner,     \* Store::inner: number of read guards held on the slab lock
    rlock,     \* per slot lock: number of read guards held
    wlock,     \* per slot lock: thread holding the write guard, or 0
    ctx,       \* CONTEXT: per thread stack of entered span ids
    pc,        \* per thread: position in the operation it runs
    loc,       \* per thread: locals of new_span (head, next, span, attrs)
    calls,     \* per thread: frames of drop_span/remove (nested by Data::drop)
    views,     \* per thread: the Span read-views it holds (visit_spans, get)
    visited,   \* per thread: ids the visit_spans callback was invoked with
    ret,       \* per thread: what its last operation returned
    handles,   \* history: references to each id held by callers
    emptied    \* history: indices of the empty slots, oldest first

vars == <<slab, next, inner, rlock, wlock, ctx, pc, loc, calls, views,
          visited, ret, handles, emptied>>

(* ------------------------------ helpers ------------------------------- *)

Range(s) == {s[i] : i \in 1..Len(s)}

Last(s) == s[Len(s)]

Front(s) == SubSeq(s, 1, Len(s) - 1)

RECURSIVE Without(_, _)
Without(s, x) ==
    IF s = <<>> THEN <<>>
    ELSE IF Head(s) = x THEN Without(Tail(s), x)
         ELSE <<Head(s)>> \o Without(Tail(s), x)

idx_to_id(idx) == idx + 1

id_to_idx(id) == id - 1

\* AtomicUsize::fetch_sub(1): wrapping subtraction; the value returned is
\* the previous one.
fetch_sub(v) == (v + UsizeMod - 1) % UsizeMod

\* How many times a count that started at 1 has been decremented.
Decrements(rc) == (1 + UsizeMod - rc) % UsizeMod

\* Vec::get(idx).is_some()
InSlab(idx) == idx >= 0 /\ idx < Len(slab)

\* State::Full(Data { parent, ref_count, is_empty }) in a slot with `fields`.
FullSlot(parent, rc, isEmpty, fields) ==
    [span |-> "Full", next |-> 0, parent |-> parent, rc |-> rc,
     is_empty |-> isEmpty, fields |-> fields]

\* State::Empty(next) in a slot with `fields`.
EmptySlot(nxt, fields) ==
    [span |-> "Empty", next |-> nxt, parent |-> NoId, rc |-> 0,
     is_empty |-> FALSE, fields |-> fields]

\* Slot::next
Slot_next(slot) == IF slot.span = "Empty" THEN slot.next ELSE None

\* A fill that renders the fields but loses the span: the slot stays empty.
\* C3_FillsOnlyVacantSlot rejects it.
Slot_fill_Lost(slot, parent, attrs) == EmptySlot(slot.next, slot.fields + attrs)

\* Slot::fill: render the attributes into the buffer, store the Data
\* (Data::new: ref_count 1, is_empty true; cleared when nothing was written).
Slot_fill(slot, parent, attrs) ==
    FullSlot(parent, 1, slot.fields + attrs # 0, slot.fields + attrs)

\* Slot::new
Slot_new(parent, attrs) == FullSlot(parent, 1, attrs # 0, attrs)

\* A record that writes whatever the slot holds.
\* C10_RecordOnVacantIsNoOp rejects it.
Slot_record_Any(slot, k) == [slot EXCEPT !.fields = @ + k]

\* Slot::record
Slot_record(slot, k) ==
    IF slot.span = "Empty" THEN slot
    ELSE [slot EXCEPT !.fields = @ + k,
                      !.is_empty = IF slot.fields + k = 0 THEN FALSE ELSE @]

\* Slot::drop_ref: the value returned.
Slot_drop_ref(slot) == slot.span = "Full" /\ slot.rc = 1

\* The slot after Slot::drop_ref and after Slot::clone_ref (on a Full slot).
Slot_dropped(slot) ==
    IF slot.span = "Full" THEN [slot EXCEPT !.rc = fetch_sub(@)] ELSE slot

Slot_cloned(slot) ==
    IF slot.span = "Full" THEN [slot EXCEPT !.rc = fetch_sub(@)] ELSE slot

\* Store::clone_span(id): what it does to the slab.
clone_span(s, id) ==
    IF id_to_idx(id) >= 0 /\ id_to_idx(id) < Len(s)
    THEN [s EXCEPT ![id] = Slot_cloned(@)]
    ELSE s

\* Store::clone_span(id): whether it panics.  An Empty slot reaches the
\* unreachable!() of clone_ref; a missing slot reaches debug_panic!, which
\* panics only in a debug build outside unwinding (dbg).
clone_panics(s, id, dbg) ==
    IF id_to_idx(id) >= 0 /\ id_to_idx(id) < Len(s)
    THEN s[id].span = "Empty"
    ELSE dbg

\* RwLock::read on a slot does not block / RwLock::try_write succeeds.
CanRead(id) == wlock[id] = 0

CanWrite(id) == wlock[id] = 0 /\ rlock[id] = 0

\* clone_span(id) does not block: the read lock of its slot is free.
CloneAllowed(id) == InSlab(id_to_idx(id)) => CanRead(id)

NoLoc == [head |-> 0, nxt |-> 0, parent |-> NoId, attrs |-> 0]

Frame(idx) == [idx |-> idx, head |-> 0, at |-> "dropref", orphan |-> NoId]

Top(t) == calls[t][Len(calls[t])]

WithTop(t, f) == [calls[t] EXCEPT ![Len(calls[t])] = f]

Idle(t) == pc[t] = "idle"

(* -------------------------------- Init -------------------------------- *)

\* Store::with_capacity: an empty slab, head 0; no thread has entered a span.
Init ==
    /\ slab = <<>>
    /\ next = 0
    /\ inner = 0
    /\ rlock = [i \in Ids |-> 0]
    /\ wlock = [i \in Ids |-> 0]
    /\ ctx = [t \in Threads |-> <<>>]
    /\ pc = [t \in Threads |-> "idle"]
    /\ loc = [t \in Threads |-> NoLoc]
    /\ calls = [t \in Threads |-> <<>>]
    /\ views = [t \in Threads |-> <<>>]
    /\ visited = [t \in Threads |-> <<>>]
    /\ ret = [t \in Threads |-> <<"none", 0>>]
    /\ handles = [i \in Ids |-> 0]
    /\ emptied = <<>>

(* ------------------------------ new_span ------------------------------ *)

\* The parent Data::new resolves: none for a root, the top of CONTEXT
\* (Store::current) for a contextual span, the given id otherwise.
ParentOf(t, mode, p) ==
    IF mode = "root" THEN NoId
    ELSE IF mode = "contextual"
         THEN (IF ctx[t] = <<>> THEN NoId ELSE Last(ctx[t]))
         ELSE p

\* Store::new_span, first part: Data::new, which clones the parent.
NewSpanStart(t, mode, p, a) ==
    /\ Idle(t)
    /\ mode = "explicit" => (p \in Ids /\ handles[p] > 0)
    /\ mode # "explicit" => p = NoId
    /\ LET par == ParentOf(t, mode, p) IN
       /\ par # NoId => CloneAllowed(par)
       /\ \E dbg \in BOOLEAN :
            IF par # NoId /\ clone_panics(slab, par, dbg)
            THEN /\ ret' = [ret EXCEPT ![t] = <<"panic", par>>]
                 /\ UNCHANGED <<slab, pc, loc>>
            ELSE /\ slab' = (IF par = NoId THEN slab ELSE clone_span(slab, par))
                 /\ pc' = [pc EXCEPT ![t] = "ns_load"]
                 /\ loc' = [loc EXCEPT ![t] = [NoLoc EXCEPT !.parent = par, !.attrs = a]]
                 /\ ret' = [ret EXCEPT ![t] = <<"none", 0>>]
    /\ visited' = [visited EXCEPT ![t] = <<>>]
    /\ UNCHANGED <<next, inner, rlock, wlock, ctx, calls, views, handles, emptied>>

\* let head = self.next.load(Relaxed)
NsLoad(t) ==
    /\ pc[t] = "ns_load"
    /\ loc' = [loc EXCEPT ![t].head = next]
    /\ pc' = [pc EXCEPT ![t] = "ns_try"]
    /\ UNCHANGED <<slab, next, inner, rlock, wlock, ctx, calls, views,
                   visited, ret, handles, emptied>>

\* self.inner.read(); if head < len, try_write the head slot and read its
\* next link; any failure drops the guards and takes a new snapshot.
NsTry(t) ==
    /\ pc[t] = "ns_try"
    /\ LET head == loc[t].head IN
       IF head < Len(slab)
       THEN IF CanWrite(idx_to_id(head)) /\ Slot_next(slab[idx_to_id(head)]) # None
            THEN /\ wlock' = [wlock EXCEPT ![idx_to_id(head)] = t]
                 /\ inner' = inner + 1
                 /\ loc' = [loc EXCEPT ![t].nxt = Slot_next(slab[idx_to_id(head)])]
                 /\ pc' = [pc EXCEPT ![t] = "ns_cas"]
            ELSE /\ pc' = [pc EXCEPT ![t] = "ns_load"]
                 /\ UNCHANGED <<wlock, inner, loc>>
       ELSE /\ pc' = [pc EXCEPT ![t] = "ns_grow"]
            /\ UNCHANGED <<wlock, inner, loc>>
    /\ UNCHANGED <<slab, next, rlock, ctx, calls, views, visited, ret,
                   handles, emptied>>

\* A new_span that advances the head to the following index instead of the
\* link stored in the slot.  C4_ReusesMostRecentlyEmptied rejects it.
NsCas_NextIndex(t) ==
    /\ pc[t] = "ns_cas"
    /\ LET head == loc[t].head
           id == idx_to_id(loc[t].head) IN
       /\ IF next = head
          THEN /\ next' = head + 1
               /\ slab' = [slab EXCEPT ![id] = Slot_fill(@, loc[t].parent, loc[t].attrs)]
               /\ pc' = [pc EXCEPT ![t] = "idle"]
               /\ loc' = [loc EXCEPT ![t] = NoLoc]
               /\ ret' = [ret EXCEPT ![t] = <<"filled", id>>]
               /\ handles' = [handles EXCEPT ![id] = 1]
               /\ emptied' = Without(emptied, head)
          ELSE /\ pc' = [pc EXCEPT ![t] = "ns_load"]
               /\ UNCHANGED <<next, slab, loc, ret, handles, emptied>>
       /\ wlock' = [wlock EXCEPT ![id] = 0]
       /\ inner' = inner - 1
    /\ UNCHANGED <<rlock, ctx, calls, views, visited>>

\* NsTry in two steps, for the threads whose hold of the structural lock
\* matters to a try_write of another thread: let this = self.inner.read() ...
NsEnter(t) ==
    /\ pc[t] = "ns_try"
    /\ inner' = inner + 1
    /\ pc' = [pc EXCEPT ![t] = "ns_read"]
    /\ UNCHANGED <<slab, next, rlock, wlock, ctx, loc, calls, views, visited,
                   ret, handles, emptied>>

\* ... and the block under the guard: if head < len, try_write the head slot
\* and read its next link (the guards are kept for the compare_and_swap);
\* any failure drops the guards and takes a new snapshot; head >= len drops
\* the guard and goes on to grow the slab.
NsDecide(t) ==
    /\ pc[t] = "ns_read"
    /\ LET head == loc[t].head IN
       IF head < Len(slab)
       THEN IF CanWrite(idx_to_id(head)) /\ Slot_next(slab[idx_to_id(head)]) # None
            THEN /\ wlock' = [wlock EXCEPT ![idx_to_id(head)] = t]
                 /\ loc' = [loc EXCEPT ![t].nxt = Slot_next(slab[idx_to_id(head)])]
                 /\ pc' = [pc EXCEPT ![t] = "ns_cas"]
                 /\ UNCHANGED inner
            ELSE /\ pc' = [pc EXCEPT ![t] = "ns_load"]
                 /\ inner' = inner - 1
                 /\ UNCHANGED <<wlock, loc>>
       ELSE /\ pc' = [pc EXCEPT ![t] = "ns_grow"]
            /\ inner' = inner - 1
            /\ UNCHANGED <<wlock, loc>>
    /\ UNCHANGED <<slab, next, rlock, ctx, calls, views, visited, ret,
                   handles, emptied>>

\* compare_and_swap(head, next); on success fill the slot and return its id.
NsCas(t) ==
    /\ pc[t] = "ns_cas"
    /\ LET head == loc[t].head
           id == idx_to_id(loc[t].head) IN
       /\ IF next = head
          THEN /\ next' = loc[t].nxt
               /\ slab' = [slab EXCEPT ![id] = Slot_fill(@, loc[t].parent, loc[t].attrs)]
               /\ pc' = [pc EXCEPT ![t] = "idle"]
               /\ loc' = [loc EXCEPT ![t] = NoLoc]
               /\ ret' = [ret EXCEPT ![t] = <<"filled", id>>]
               /\ handles' = [handles EXCEPT ![id] = 1]
               /\ emptied' = Without(emptied, head)
          ELSE /\ pc' = [pc EXCEPT ![t] = "ns_load"]
               /\ UNCHANGED <<next, slab, loc, ret, handles, emptied>>
       /\ wlock' = [wlock EXCEPT ![id] = 0]
       /\ inner' = inner - 1
    /\ UNCHANGED <<rlock, ctx, calls, views, visited>>

\* A growth that stores the index of the new slot, not the new length, as
\* the head.  C12_FreeListWellFormed rejects it.
NsGrow_HeadOnNewSlot(t) ==
    /\ pc[t] = "ns_grow"
    /\ IF inner = 0
       THEN LET len == Len(slab) IN
            /\ slab' = Append(slab, Slot_new(loc[t].parent, loc[t].attrs))
            /\ next' = len
            /\ pc' = [pc EXCEPT ![t] = "idle"]
            /\ loc' = [loc EXCEPT ![t] = NoLoc]
            /\ ret' = [ret EXCEPT ![t] = <<"grown", idx_to_id(len)>>]
            /\ handles' = [handles EXCEPT ![idx_to_id(len)] = 1]
       ELSE /\ pc' = [pc EXCEPT ![t] = "ns_load"]
            /\ UNCHANGED <<slab, next, loc, ret, handles>>
    /\ UNCHANGED <<inner, rlock, wlock, ctx, calls, views, visited, emptied>>

\* self.inner.try_write(): push a new slot, store len + 1 as the head.
NsGrow(t) ==
    /\ pc[t] = "ns_grow"
    /\ IF inner = 0
       THEN LET len == Len(slab) IN
            /\ slab' = Append(slab, Slot_new(loc[t].parent, loc[t].attrs))
            /\ next' = len + 1
            /\ pc' = [pc EXCEPT ![t] = "idle"]
            /\ loc' = [loc EXCEPT ![t] = NoLoc]
            /\ ret' = [ret EXCEPT ![t] = <<"grown", idx_to_id(len)>>]
            /\ handles' = [handles EXCEPT ![idx_to_id(len)] = 1]
       ELSE /\ pc' = [pc EXCEPT ![t] = "ns_load"]
            /\ UNCHANGED <<slab, next, loc, ret, handles>>
    /\ UNCHANGED <<inner, rlock, wlock, ctx, calls, views, visited, emptied>>

(* ------------------------ drop_span and remove ------------------------ *)

\* Subscriber::try_close(parent) as the fmt subscriber dispatches it: a
\* drop_span(parent) on the same store, run by the thread that drops the Data.
try_close(frames, parent) == Append(frames, Frame(id_to_idx(parent)))

\* drop_span returns b: to the caller of the operation, or to the Data::drop
\* that called it (which ignores the result).
Return(t, b) ==
    IF Len(calls[t]) = 1
    THEN /\ pc' = [pc EXCEPT ![t] = "idle"]
         /\ calls' = [calls EXCEPT ![t] = <<>>]
         /\ ret' = [ret EXCEPT ![t] = <<IF b THEN "true" ELSE "false", idx_to_id(Top(t).idx)>>]
    ELSE /\ calls' = [calls EXCEPT ![t] = Front(@)]
         /\ UNCHANGED <<pc, ret>>

\* A caller drops one of the references it holds to id.
DropStart(t, id) ==
    /\ Idle(t)
    /\ id \in Ids
    /\ handles[id] > 0
    /\ handles' = [handles EXCEPT ![id] = @ - 1]
    /\ pc' = [pc EXCEPT ![t] = "drop"]
    /\ calls' = [calls EXCEPT ![t] = <<Frame(id_to_idx(id))>>]
    /\ ret' = [ret EXCEPT ![t] = <<"none", 0>>]
    /\ visited' = [visited EXCEPT ![t] = <<>>]
    /\ UNCHANGED <<slab, next, inner, rlock, wlock, ctx, loc, views, emptied>>

\* drop_span: self.inner.read(), then slab.get(idx).map(|s| s.read().drop_ref());
\* false (or a debug panic, when the slot is missing) ends the call.
DsDropRef(t) ==
    /\ pc[t] = "drop"
    /\ Top(t).at = "dropref"
    /\ LET idx == Top(t).idx
           id == idx_to_id(Top(t).idx) IN
       IF InSlab(idx)
       THEN /\ CanRead(id)
            /\ slab' = [slab EXCEPT ![id] = Slot_dropped(@)]
            /\ IF Slot_drop_ref(slab[id])
               THEN /\ inner' = inner + 1
                    /\ calls' = [calls EXCEPT ![t] = WithTop(t, [Top(t) EXCEPT !.at = "rm_load"])]
                    /\ UNCHANGED <<pc, ret>>
               ELSE /\ Return(t, FALSE)
                    /\ UNCHANGED inner
       ELSE /\ Return(t, FALSE)
            /\ UNCHANGED <<slab, inner>>
    /\ UNCHANGED <<next, rlock, wlock, ctx, loc, views, visited, handles, emptied>>

\* Slab::remove: let head = next.load(Relaxed)
RmLoad(t) ==
    /\ pc[t] = "drop"
    /\ Top(t).at = "rm_load"
    /\ calls' = [calls EXCEPT ![t] = WithTop(t, [Top(t) EXCEPT !.head = next, !.at = "rm_replace"])]
    /\ UNCHANGED <<slab, next, inner, rlock, wlock, ctx, pc, loc, views,
                   visited, ret, handles, emptied>>

\* A remove that empties the slot without waiting for its readers.
\* C18_ViewedSlotIsStable rejects it.
RmReplace_NoWait(t) ==
    /\ pc[t] = "drop"
    /\ Top(t).at = "rm_replace"
    /\ LET idx == Top(t).idx
           id == idx_to_id(Top(t).idx) IN
       /\ wlock[id] = 0
       /\ IF slab[id].span = "Full"
          THEN /\ slab' = [slab EXCEPT ![id] = EmptySlot(Top(t).head, @.fields)]
               /\ wlock' = [wlock EXCEPT ![id] = t]
               /\ calls' = [calls EXCEPT ![t] =
                     WithTop(t, [Top(t) EXCEPT !.at = "rm_cas", !.orphan = slab[id].parent])]
               /\ emptied' = Append(emptied, idx)
               /\ UNCHANGED <<inner, pc, ret>>
          ELSE /\ inner' = inner - 1
               /\ Return(t, TRUE)
               /\ UNCHANGED <<slab, wlock, emptied>>
    /\ UNCHANGED <<next, rlock, ctx, loc, views, visited, handles>>

\* Slab::remove: self.slab[idx].write(); mem::replace(&mut slot.span,
\* State::Empty(head)).  A slot found Empty is put back and remove returns
\* None (drop_span then returns true).
RmReplace(t) ==
    /\ pc[t] = "drop"
    /\ Top(t).at = "rm_replace"
    /\ LET idx == Top(t).idx
           id == idx_to_id(Top(t).idx) IN
       /\ CanWrite(id)
       /\ IF slab[id].span = "Full"
          THEN /\ slab' = [slab EXCEPT ![id] = EmptySlot(Top(t).head, @.fields)]
               /\ wlock' = [wlock EXCEPT ![id] = t]
               /\ calls' = [calls EXCEPT ![t] =
                     WithTop(t, [Top(t) EXCEPT !.at = "rm_cas", !.orphan = slab[id].parent])]
               /\ emptied' = Append(emptied, idx)
               /\ UNCHANGED <<inner, pc, ret>>
          ELSE /\ inner' = inner - 1
               /\ Return(t, TRUE)
               /\ UNCHANGED <<slab, wlock, emptied>>
    /\ UNCHANGED <<next, rlock, ctx, loc, views, visited, handles>>

\* Slab::remove: compare_and_swap(head, idx).  On success the buffer is
\* cleared, the slot guard released and the Data returned to drop_span, which
\* drops it.  On failure the Data is dropped at the end of the loop body,
\* before the slot guard, and the loop runs again.  Dropping a Data that has
\* a parent closes the parent (Data::drop).
RmCas(t) ==
    /\ pc[t] = "drop"
    /\ Top(t).at = "rm_cas"
    /\ LET idx == Top(t).idx
           id == idx_to_id(Top(t).idx)
           par == Top(t).orphan IN
       IF next = Top(t).head
       THEN /\ next' = idx
            /\ slab' = [slab EXCEPT ![id].fields = 0]
            /\ wlock' = [wlock EXCEPT ![id] = 0]
            /\ IF par # NoId
               THEN /\ calls' = [calls EXCEPT ![t] =
                          try_close(WithTop(t, [Top(t) EXCEPT !.at = "after_ok", !.orphan = NoId]), par)]
                    /\ UNCHANGED <<inner, pc, ret>>
               ELSE /\ inner' = inner - 1
                    /\ Return(t, TRUE)
       ELSE /\ IF par # NoId
               THEN /\ calls' = [calls EXCEPT ![t] =
                          try_close(WithTop(t, [Top(t) EXCEPT !.at = "after_retry", !.orphan = NoId]), par)]
                    /\ UNCHANGED wlock
               ELSE /\ calls' = [calls EXCEPT ![t] = WithTop(t, [Top(t) EXCEPT !.at = "rm_load"])]
                    /\ wlock' = [wlock EXCEPT ![id] = 0]
            /\ UNCHANGED <<next, slab, inner, pc, ret>>
    /\ UNCHANGED <<rlock, ctx, loc, views, visited, handles, emptied>>

\* drop_span after remove returned Some(data) and the Data's parent was
\* closed: the slab read guard is released and true returned.
DsAfterOk(t) ==
    /\ pc[t] = "drop"
    /\ Top(t).at = "after_ok"
    /\ inner' = inner - 1
    /\ Return(t, TRUE)
    /\ UNCHANGED <<slab, next, rlock, wlock, ctx, loc, views, visited,
                   handles, emptied>>

\* A remove that keeps the slot guard of the lost round when it retries.
\* C11_NoWaitCycle rejects it.
RmAfterRetry_KeepsGuard(t) ==
    /\ pc[t] = "drop"
    /\ Top(t).at = "after_retry"
    /\ calls' = [calls EXCEPT ![t] = WithTop(t, [Top(t) EXCEPT !.at = "rm_load"])]
    /\ UNCHANGED <<slab, next, inner, rlock, wlock, ctx, pc, loc, views, visited,
                   ret, handles, emptied>>

\* Slab::remove after a lost compare_and_swap and the Data's parent was
\* closed: the slot guard is released and the loop takes a new snapshot.
RmAfterRetry(t) ==
    /\ pc[t] = "drop"
    /\ Top(t).at = "after_retry"
    /\ wlock' = [wlock EXCEPT ![idx_to_id(Top(t).idx)] = 0]
    /\ calls' = [calls EXCEPT ![t] = WithTop(t, [Top(t) EXCEPT !.at = "rm_load"])]
    /\ UNCHANGED <<slab, next, inner, rlock, ctx, pc, loc, views, visited,
                   ret, handles, emptied>>

(* ----------------------------- clone_span ----------------------------- *)

\* Store::clone_span(id) by a caller that holds a reference to id.
CloneSpan(t, id) ==
    /\ Idle(t)
    /\ id \in Ids
    /\ handles[id] > 0
    /\ CloneAllowed(id)
    /\ \E dbg \in BOOLEAN :
         IF clone_panics(slab, id, dbg)
         THEN /\ ret' = [ret EXCEPT ![t] = <<"panic", id>>]
              /\ UNCHANGED <<slab, handles>>
         ELSE /\ slab' = clone_span(slab, id)
              /\ handles' = [handles EXCEPT ![id] = @ + 1]
              /\ ret' = [ret EXCEPT ![t] = <<"cloned", id>>]
    /\ visited' = [visited EXCEPT ![t] = <<>>]
    /\ UNCHANGED <<next, inner, rlock, wlock, ctx, pc, loc, calls, views, emptied>>

\* Store::clone_span(id) by a caller whose span is gone: the slot of id is
\* empty, or id is beyond the slab.  dbg: the build has debug assertions and
\* the thread is not unwinding.
CloneStale(t, id, dbg) ==
    /\ Idle(t)
    /\ id \in Ids
    /\ handles[id] = 0
    /\ InSlab(id_to_idx(id)) => slab[id].span = "Empty"
    /\ CloneAllowed(id)
    /\ IF clone_panics(slab, id, dbg)
       THEN /\ ret' = [ret EXCEPT ![t] = <<"panic", id>>]
            /\ UNCHANGED slab
       ELSE /\ slab' = clone_span(slab, id)
            /\ ret' = [ret EXCEPT ![t] = <<"cloned", id>>]
    /\ visited' = [visited EXCEPT ![t] = <<>>]
    /\ UNCHANGED <<next, inner, rlock, wlock, ctx, pc, loc, calls, views,
                   handles, emptied>>

(* ---------------------------- push and pop ---------------------------- *)

\* A push that never ignores an enter.  C7_SecondPushIsNoOp rejects it.
Push_Always(t, id) ==
    /\ Idle(t)
    /\ id \in Ids
    /\ handles[id] > 0
    /\ CloneAllowed(id)
    /\ \E dbg \in BOOLEAN :
         IF clone_panics(slab, id, dbg)
         THEN /\ ret' = [ret EXCEPT ![t] = <<"panic", id>>]
              /\ UNCHANGED <<slab, ctx>>
         ELSE /\ slab' = clone_span(slab, id)
              /\ ctx' = [ctx EXCEPT ![t] = Append(@, id)]
              /\ ret' = [ret EXCEPT ![t] = <<"pushed", id>>]
    /\ visited' = [visited EXCEPT ![t] = <<>>]
    /\ UNCHANGED <<next, inner, rlock, wlock, pc, loc, calls, views, handles, emptied>>

\* A push that ignores an enter of the top of the stack only.
\* C8_PushesUnlessEntered rejects it.
Push_TopOnly(t, id) ==
    /\ Idle(t)
    /\ id \in Ids
    /\ handles[id] > 0
    /\ IF ctx[t] # <<>> /\ Last(ctx[t]) = id
       THEN /\ ret' = [ret EXCEPT ![t] = <<"push_dup", id>>]
            /\ UNCHANGED <<slab, ctx>>
       ELSE /\ CloneAllowed(id)
            /\ \E dbg \in BOOLEAN :
                 IF clone_panics(slab, id, dbg)
                 THEN /\ ret' = [ret EXCEPT ![t] = <<"panic", id>>]
                      /\ UNCHANGED <<slab, ctx>>
                 ELSE /\ slab' = clone_span(slab, id)
                      /\ ctx' = [ctx EXCEPT ![t] = Append(@, id)]
                      /\ ret' = [ret EXCEPT ![t] = <<"pushed", id>>]
    /\ visited' = [visited EXCEPT ![t] = <<>>]
    /\ UNCHANGED <<next, inner, rlock, wlock, pc, loc, calls, views, handles, emptied>>

\* Store::push(id), called by the holder of a reference to id.
Push(t, id) ==
    /\ Idle(t)
    /\ id \in Ids
    /\ handles[id] > 0
    /\ IF id \in Range(ctx[t])
       THEN /\ ret' = [ret EXCEPT ![t] = <<"push_dup", id>>]
            /\ UNCHANGED <<slab, ctx>>
       ELSE /\ CloneAllowed(id)
            /\ \E dbg \in BOOLEAN :
                 IF clone_panics(slab, id, dbg)
                 THEN /\ ret' = [ret EXCEPT ![t] = <<"panic", id>>]
                      /\ UNCHANGED <<slab, ctx>>
                 ELSE /\ slab' = clone_span(slab, id)
                      /\ ctx' = [ctx EXCEPT ![t] = Append(@, id)]
                      /\ ret' = [ret EXCEPT ![t] = <<"pushed", id>>]
    /\ visited' = [visited EXCEPT ![t] = <<>>]
    /\ UNCHANGED <<next, inner, rlock, wlock, pc, loc, calls, views, handles, emptied>>

\* A pop that takes the top of the stack whatever id it is given.
\* C9_PopMismatchIsNoOp rejects it.
Pop_Top(t, id) ==
    /\ Idle(t)
    /\ id \in Ids
    /\ IF ctx[t] # <<>>
       THEN /\ ctx' = [ctx EXCEPT ![t] = Front(@)]
            /\ pc' = [pc EXCEPT ![t] = "drop"]
            /\ calls' = [calls EXCEPT ![t] = <<Frame(id_to_idx(Last(ctx[t])))>>]
            /\ ret' = [ret EXCEPT ![t] = <<"none", 0>>]
       ELSE /\ ret' = [ret EXCEPT ![t] = <<"pop_none", id>>]
            /\ UNCHANGED <<ctx, pc, calls>>
    /\ visited' = [visited EXCEPT ![t] = <<>>]
    /\ UNCHANGED <<slab, next, inner, rlock, wlock, loc, views, handles, emptied>>

\* Store::pop(expected_id): pops only when expected_id is the top of the
\* stack, and then drops the span reference the stack held.
Pop(t, id) ==
    /\ Idle(t)
    /\ id \in Ids
    /\ IF ctx[t] # <<>> /\ Last(ctx[t]) = id
       THEN /\ ctx' = [ctx EXCEPT ![t] = Front(@)]
            /\ pc' = [pc EXCEPT ![t] = "drop"]
            /\ calls' = [calls EXCEPT ![t] = <<Frame(id_to_idx(id))>>]
            /\ ret' = [ret EXCEPT ![t] = <<"none", 0>>]
       ELSE /\ ret' = [ret EXCEPT ![t] = <<"pop_none", id>>]
            /\ UNCHANGED <<ctx, pc, calls>>
    /\ visited' = [visited EXCEPT ![t] = <<>>]
    /\ UNCHANGED <<slab, next, inner, rlock, wlock, loc, views, handles, emptied>>

(* ------------------------------- record ------------------------------- *)

\* Store::record(id, fields): slab read lock, write lock of the slot when
\* it exists, Slot::record.
RecordFields(t, id, k) ==
    /\ Idle(t)
    /\ id \in Ids
    /\ IF InSlab(id_to_idx(id))
       THEN /\ CanWrite(id)
            /\ slab' = [slab EXCEPT ![id] = Slot_record(@, k)]
       ELSE UNCHANGED slab
    /\ ret' = [ret EXCEPT ![t] = <<"recorded", id>>]
    /\ visited' = [visited EXCEPT ![t] = <<>>]
    /\ UNCHANGED <<next, inner, rlock, wlock, ctx, pc, loc, calls, views,
                   handles, emptied>>

\* Store::record(id, fields) step by step, for threads that contend for the
\* slot: self.inner.read() and the call of write_slot ...
RecordStart(t, id, k) ==
    /\ Idle(t)
    /\ id \in Ids
    /\ inner' = inner + 1
    /\ pc' = [pc EXCEPT ![t] = "record"]
    /\ loc' = [loc EXCEPT ![t] = [NoLoc EXCEPT !.head = id_to_idx(id), !.attrs = k]]
    /\ ret' = [ret EXCEPT ![t] = <<"none", 0>>]
    /\ visited' = [visited EXCEPT ![t] = <<>>]
    /\ UNCHANGED <<slab, next, rlock, wlock, ctx, calls, views, handles, emptied>>

\* ... and RwLock::write on the slot, which waits for the readers and the
\* writer of the slot, Slot::record, and the release of both guards.
RecordWrite(t) ==
    /\ pc[t] = "record"
    /\ LET idx == loc[t].head
           id == idx_to_id(loc[t].head) IN
       /\ IF InSlab(idx)
          THEN /\ CanWrite(id)
               /\ slab' = [slab EXCEPT ![id] = Slot_record(@, loc[t].attrs)]
          ELSE UNCHANGED slab
       /\ ret' = [ret EXCEPT ![t] = <<"recorded", id>>]
    /\ inner' = inner - 1
    /\ pc' = [pc EXCEPT ![t] = "idle"]
    /\ loc' = [loc EXCEPT ![t] = NoLoc]
    /\ UNCHANGED <<next, rlock, wlock, ctx, calls, views, visited, handles, emptied>>

(* --------------------------- get and Span views ----------------------- *)

\* Slab::read_slot(idx): Some(read guard) exactly for a Full slot in range.
read_slot(idx) == InSlab(idx) /\ slab[idx_to_id(idx)].span = "Full"

\* Store::get(id): the view holds a read guard of the slab and of the slot.
Get(t, id) ==
    /\ Idle(t)
    /\ id \in Ids
    /\ InSlab(id_to_idx(id)) => CanRead(id)
    /\ IF read_slot(id_to_idx(id))
       THEN /\ views' = [views EXCEPT ![t] = <<id>>]
            /\ inner' = inner + 1
            /\ rlock' = [rlock EXCEPT ![id] = @ + 1]
            /\ pc' = [pc EXCEPT ![t] = "view"]
            /\ ret' = [ret EXCEPT ![t] = <<"view", id>>]
       ELSE /\ ret' = [ret EXCEPT ![t] = <<"absent", id>>]
            /\ UNCHANGED <<views, inner, rlock, pc>>
    /\ visited' = [visited EXCEPT ![t] = <<>>]
    /\ UNCHANGED <<slab, next, wlock, ctx, loc, calls, handles, emptied>>

\* The Span returned by get is dropped: both read guards are released.
ViewDrop(t) ==
    /\ pc[t] = "view"
    /\ views' = [views EXCEPT ![t] = <<>>]
    /\ inner' = inner - 1
    /\ rlock' = [rlock EXCEPT ![Last(views[t])] = @ - 1]
    /\ pc' = [pc EXCEPT ![t] = "idle"]
    /\ UNCHANGED <<slab, next, wlock, ctx, loc, calls, visited, ret,
                   handles, emptied>>

(* ----------------------------- visit_spans ---------------------------- *)

\* How many of the views in vs are views of slot id.
Held(vs, id) == Cardinality({i \in 1..Len(vs) : vs[i] = id})

\* The slot read locks once every view in vs is dropped.
Released(vs) == [i \in Ids |-> rlock[i] - Held(vs, i)]

\* Context::visit_spans: nothing outside of a span; else get the span on top
\* of CONTEXT and hand it to with_parent (last_id = None).
VisitStart(t) ==
    /\ Idle(t)
    /\ IF ctx[t] = <<>>
       THEN /\ ret' = [ret EXCEPT ![t] = <<"ok", NoId>>]
            /\ UNCHANGED <<views, inner, rlock, pc>>
       ELSE LET id == Last(ctx[t]) IN
            /\ InSlab(id_to_idx(id)) => CanRead(id)
            /\ IF read_slot(id_to_idx(id))
               THEN /\ views' = [views EXCEPT ![t] = <<id>>]
                    /\ inner' = inner + 1
                    /\ rlock' = [rlock EXCEPT ![id] = @ + 1]
                    /\ pc' = [pc EXCEPT ![t] = "v_up"]
                    /\ ret' = [ret EXCEPT ![t] = <<"none", 0>>]
               ELSE /\ \E dbg \in BOOLEAN :
                         ret' = [ret EXCEPT ![t] = <<IF dbg THEN "panic" ELSE "ok", id>>]
                    /\ UNCHANGED <<views, inner, rlock, pc>>
    /\ visited' = [visited EXCEPT ![t] = <<>>]
    /\ UNCHANGED <<slab, next, wlock, ctx, loc, calls, handles, emptied>>

\* Span::with_parent, before the callback: when the span has a parent other
\* than last_id, get it and recurse into it; a missing parent is a debug
\* panic, or is skipped.
VisitUp(t) ==
    /\ pc[t] = "v_up"
    /\ LET vs == views[t]
           my_id == Last(views[t])
           last_id == IF Len(views[t]) = 1 THEN NoId ELSE views[t][Len(views[t]) - 1]
           parent_id == slab[Last(views[t])].parent IN
       IF parent_id # NoId /\ parent_id # last_id
       THEN /\ InSlab(id_to_idx(parent_id)) => CanRead(parent_id)
            /\ IF read_slot(id_to_idx(parent_id))
               THEN /\ views' = [views EXCEPT ![t] = Append(@, parent_id)]
                    /\ inner' = inner + 1
                    /\ rlock' = [rlock EXCEPT ![parent_id] = @ + 1]
                    /\ UNCHANGED <<pc, ret>>
               ELSE \E dbg \in BOOLEAN :
                      IF dbg
                      THEN /\ views' = [views EXCEPT ![t] = <<>>]
                           /\ inner' = inner - Len(vs)
                           /\ rlock' = Released(vs)
                           /\ pc' = [pc EXCEPT ![t] = "idle"]
                           /\ ret' = [ret EXCEPT ![t] = <<"panic", parent_id>>]
                      ELSE /\ pc' = [pc EXCEPT ![t] = "v_down"]
                           /\ UNCHANGED <<views, inner, rlock, ret>>
       ELSE /\ pc' = [pc EXCEPT ![t] = "v_down"]
            /\ UNCHANGED <<views, inner, rlock, ret>>
    /\ UNCHANGED <<slab, next, wlock, ctx, loc, calls, visited, handles, emptied>>

\* A with_parent that calls f before it recurses into the parent: the
\* callbacks run from the leaf to the root.  C5_VisitsRootToLeaf rejects it.
VisitDown_LeafFirst(t) ==
    /\ pc[t] = "v_down"
    /\ LET vs == views[t]
           my_id == Head(views[t]) IN
       /\ visited' = [visited EXCEPT ![t] = Append(@, my_id)]
       /\ \E err \in BOOLEAN :
            IF err
            THEN /\ views' = [views EXCEPT ![t] = <<>>]
                 /\ inner' = inner - Len(vs)
                 /\ rlock' = Released(vs)
                 /\ pc' = [pc EXCEPT ![t] = "idle"]
                 /\ ret' = [ret EXCEPT ![t] = <<"err", my_id>>]
            ELSE /\ views' = [views EXCEPT ![t] = Tail(vs)]
                 /\ inner' = inner - 1
                 /\ rlock' = [rlock EXCEPT ![my_id] = @ - 1]
                 /\ IF Len(vs) = 1
                    THEN /\ pc' = [pc EXCEPT ![t] = "idle"]
                         /\ ret' = [ret EXCEPT ![t] = <<"ok", my_id>>]
                    ELSE UNCHANGED <<pc, ret>>
    /\ UNCHANGED <<slab, next, wlock, ctx, loc, calls, handles, emptied>>

\* A with_parent that goes on after the callback failed for an ancestor.
\* C6_ShortCircuitsOnError rejects it.
VisitDown_GoesOn(t) ==
    /\ pc[t] = "v_down"
    /\ LET vs == views[t]
           my_id == Last(views[t]) IN
       /\ visited' = [visited EXCEPT ![t] = Append(@, my_id)]
       /\ views' = [views EXCEPT ![t] = Front(vs)]
       /\ inner' = inner - 1
       /\ rlock' = [rlock EXCEPT ![my_id] = @ - 1]
       /\ pc' = [pc EXCEPT ![t] = IF Len(vs) = 1 THEN "idle" ELSE @]
       /\ \E err \in BOOLEAN :
            IF err
            THEN ret' = [ret EXCEPT ![t] = <<"err", my_id>>]
            ELSE IF Len(vs) = 1
                 THEN ret' = [ret EXCEPT ![t] = <<"ok", my_id>>]
                 ELSE UNCHANGED ret
    /\ UNCHANGED <<slab, next, wlock, ctx, loc, calls, handles, emptied>>

\* Span::with_parent, f(my_id, self): the callback consumes the view.  An
\* error returns through every caller (the ? operator), dropping their views.
VisitDown(t) ==
    /\ pc[t] = "v_down"
    /\ LET vs == views[t]
           my_id == Last(views[t]) IN
       /\ visited' = [visited EXCEPT ![t] = Append(@, my_id)]
       /\ \E err \in BOOLEAN :
            IF err
            THEN /\ views' = [views EXCEPT ![t] = <<>>]
                 /\ inner' = inner - Len(vs)
                 /\ rlock' = Released(vs)
                 /\ pc' = [pc EXCEPT ![t] = "idle"]
                 /\ ret' = [ret EXCEPT ![t] = <<"err", my_id>>]
            ELSE /\ views' = [views EXCEPT ![t] = Front(vs)]
                 /\ inner' = inner - 1
                 /\ rlock' = [rlock EXCEPT ![my_id] = @ - 1]
                 /\ IF Len(vs) = 1
                    THEN /\ pc' = [pc EXCEPT ![t] = "idle"]
                         /\ ret' = [ret EXCEPT ![t] = <<"ok", my_id>>]
                    ELSE UNCHANGED <<pc, ret>>
    /\ UNCHANGED <<slab, next, wlock, ctx, loc, calls, handles, emptied>>

(* --------------------------- specifications --------------------------- *)

\* Bounds of the exploration, stated where an operation is started.  The
\* slab stays within n slots: a sequential new_span starts when the slab can
\* still grow or the free-list head is a slot of the slab; a concurrent one
\* takes its growing step while the slab can still grow.
CapSeq(n) == Len(slab) < n \/ next < Len(slab)

CapGrow(n) == Len(slab) < n

\* The count of id has been decremented fewer than n times.
CapRefs(id, n) ==
    (id # NoId /\ InSlab(id_to_idx(id)) /\ slab[id].span = "Full")
        => Decrements(slab[id].rc) < n

\* The field buffer of id stays within n chunks.
CapFields(id, k, n) ==
    (InSlab(id_to_idx(id)) /\ slab[id].span = "Full") => slab[id].fields + k <= n

\* The steps of new_span after Data::new.
NewSpanSteps(t) ==
    \/ NsLoad(t)
    \/ NsTry(t)
    \/ NsCas(t)
    \/ NsGrow(t)

\* The steps of drop_span and Slab::remove for a span without parent.
DropSteps(t) ==
    \/ DsDropRef(t)
    \/ RmLoad(t)
    \/ RmReplace(t)
    \/ RmCas(t)

\* One thread creating root spans, cloning and dropping references to them
\* and looking them up.
RefNext ==
    \/ CapSeq(MaxSlab) /\ NewSpanStart(1, "root", NoId, 0)
    \/ NewSpanSteps(1)
    \/ \E id \in Ids : CapRefs(id, MaxDecr) /\ CloneSpan(1, id)
    \/ \E id \in Ids : DropStart(1, id)
    \/ DropSteps(1)
    \/ \E id \in Ids : Get(1, id)
    \/ ViewDrop(1)

RefSpec == Init /\ [][RefNext]_vars

\* One thread creating spans (roots, children of a given span, children of
\* the span it is in), dropping them, entering and exiting them and visiting
\* its context.
CtxNext ==
    \/ \E mode \in {"root", "explicit", "contextual"}, p \in {NoId} \cup Ids :
          /\ CapSeq(MaxSlab)
          /\ CapRefs(ParentOf(1, mode, p), MaxDecr)
          /\ NewSpanStart(1, mode, p, 0)
    \/ NewSpanSteps(1)
    \/ \E id \in Ids : CapRefs(id, MaxDecr) /\ Push(1, id)
    \/ \E id \in Ids : Pop(1, id)
    \/ \E id \in Ids : DropStart(1, id)
    \/ DropSteps(1)
    \/ DsAfterOk(1)
    \/ VisitStart(1)
    \/ VisitUp(1)
    \/ VisitDown(1)

CtxSpec == Init /\ [][CtxNext]_vars

\* The steps of new_span while no slot has been emptied: the free-list head
\* is the slab length and the slab grows.
GrowSteps(t) ==
    \/ NsLoad(t)
    \/ NsTry(t)
    \/ NsGrow(t)

\* One thread creating spans (roots, children of a given span, children of
\* the span it is in), entering them and visiting its context.
VisitNext ==
    \/ \E mode \in {"root", "explicit", "contextual"}, p \in {NoId} \cup Ids :
          /\ CapSeq(MaxSlab)
          /\ CapRefs(ParentOf(1, mode, p), MaxDecr)
          /\ NewSpanStart(1, mode, p, 0)
    \/ GrowSteps(1)
    \/ \E id \in Ids : CapRefs(id, MaxDecr) /\ Push(1, id)
    \/ VisitStart(1)
    \/ VisitUp(1)
    \/ VisitDown(1)

VisitSpec == Init /\ [][VisitNext]_vars

\* One thread creating root spans, dropping them, and entering and exiting
\* them.
StackNext ==
    \/ CapSeq(MaxSlab) /\ NewSpanStart(1, "root", NoId, 0)
    \/ NewSpanSteps(1)
    \/ \E id \in Ids : CapRefs(id, MaxDecr) /\ Push(1, id)
    \/ \E id \in Ids : Pop(1, id)
    \/ \E id \in Ids : DropStart(1, id)
    \/ DropSteps(1)

StackSpec == Init /\ [][StackNext]_vars

\* One thread creating root spans with or without fields, recording fields
\* and dropping the spans.
RecordNext ==
    \/ \E a \in 0..1 : CapSeq(MaxSlab) /\ NewSpanStart(1, "root", NoId, a)
    \/ NewSpanSteps(1)
    \/ \E id \in Ids : DropStart(1, id)
    \/ DropSteps(1)
    \/ \E id \in Ids, k \in 0..1 : CapFields(id, k, MaxFields) /\ RecordFields(1, id, k)

RecordSpec == Init /\ [][RecordNext]_vars

\* One thread creating root spans, dropping them, and cloning ids it holds
\* no reference to.
MisuseNext ==
    \/ CapSeq(MaxSlab) /\ NewSpanStart(1, "root", NoId, 0)
    \/ NewSpanSteps(1)
    \/ \E id \in Ids : DropStart(1, id)
    \/ DropSteps(1)
    \/ \E id \in Ids, dbg \in BOOLEAN : CloneStale(1, id, dbg)

MisuseSpec == Init /\ [][MisuseNext]_vars

\* Threads creating root spans, recording fields, dropping the references
\* they hold, and taking and releasing read-views.
ViewThread(t) ==
    \/ NewSpanStart(t, "root", NoId, 0)
    \/ NsLoad(t)
    \/ NsTry(t)
    \/ NsCas(t)
    \/ CapGrow(ConcSlab) /\ NsGrow(t)
    \/ \E id \in Ids, k \in 0..1 : CapFields(id, k, MaxFields) /\ RecordStart(t, id, k)
    \/ RecordWrite(t)
    \/ \E id \in Ids : DropStart(t, id)
    \/ DropSteps(t)
    \/ \E id \in Ids : Get(t, id)
    \/ ViewDrop(t)

ViewNext == \E t \in Workers : ViewThread(t)

ViewSpec == Init /\ [][ViewNext]_vars

\* Three threads sharing the store.  The first creates spans (roots and
\* children of a span it holds), enters one, visits its context and drops
\* references, with the release of the parent when a child is destroyed.
\* The second records (empty sets of) values, and clones and drops
\* references.  The third takes and releases read-views.
\* The structural lock is written only between a successful try_write and
\* the end of the block (NsGrow), where the thread waits for nothing.
LockNext ==
    \/ \E p \in {NoId} \cup Ids :
          /\ Len(slab) < MaxSlab
          /\ CapRefs(p, ConcDecr)
          /\ NewSpanStart(1, IF p = NoId THEN "root" ELSE "explicit", p, 0)
    \/ NewSpanSteps(1)
    \/ \E id \in Ids : ctx[1] = <<>> /\ CapRefs(id, ConcDecr) /\ Push(1, id)
    \/ VisitStart(1)
    \/ VisitUp(1)
    \/ VisitDown(1)
    \/ \E id \in Ids : handles[id] > 0 /\ RecordStart(2, id, 0)
    \/ RecordWrite(2)
    \/ \E id \in Ids : CapRefs(id, ConcDecr) /\ CloneSpan(2, id)
    \/ \E t \in Workers, id \in Ids : DropStart(t, id)
    \/ \E t \in Workers : DropSteps(t)
    \/ \E t \in Workers : DsAfterOk(t)
    \/ \E t \in Workers : RmAfterRetry(t)
    \/ \E id \in Ids : handles[id] > 0 /\ Get(3, id)
    \/ ViewDrop(3)

LockSpec == Init /\ [][LockNext]_vars

\* Finitely many operations: each thread creates one root span and then
\* drops it; no read-view is taken.
LiveThread(t) ==
    \/ ret[t] = <<"none", 0>> /\ NewSpanStart(t, "root", NoId, 0)
    \/ NsLoad(t)
    \/ NsEnter(t)
    \/ NsDecide(t)
    \/ NsCas(t)
    \/ NsGrow(t)
    \/ \E id \in Ids : ret[t] \in {<<"filled", id>>, <<"grown", id>>} /\ DropStart(t, id)
    \/ DropSteps(t)

LiveNext == \E t \in Workers : LiveThread(t)

\* Fair scheduling: a thread that can take a step eventually takes one.
LiveSpec == Init /\ [][LiveNext]_vars /\ \A t \in Workers : WF_vars(LiveThread(t))

\* Threads concurrently creating root spans and cloning and dropping the
\* references they hold, one step at a time.
ThreadNext(t) ==
    \/ NewSpanStart(t, "root", NoId, 0)
    \/ NsLoad(t)
    \/ NsTry(t)
    \/ NsCas(t)
    \/ CapGrow(ConcSlab) /\ NsGrow(t)
    \/ \E id \in Ids : CapRefs(id, ConcDecr) /\ CloneSpan(t, id)
    \/ \E id \in Ids : DropStart(t, id)
    \/ DropSteps(t)

Next == \E t \in Workers : ThreadNext(t)

Spec == Init /\ [][Next]_vars

(* ------------------------------- claims ------------------------------- *)

\* A drop_span of id, or of a child closing id, is under way.
Dropping(id) ==
    \E t \in Threads : \E i \in 1..Len(calls[t]) : calls[t][i].idx = id_to_idx(id)

\* The thread returns from new_span in this step.
NewSpanReturns(t) == pc[t] \in {"ns_cas", "ns_grow"} /\ pc'[t] = "idle"

\* The spans from the root down to id along the parent links (at most n).
RECURSIVE Chain(_, _)
Chain(id, n) ==
    IF n = 0 \/ ~read_slot(id_to_idx(id)) THEN <<>>
    ELSE IF slab[id].parent = NoId THEN <<id>>
         ELSE Chain(slab[id].parent, n - 1) \o <<id>>

IsPrefix(s, w) == Len(s) <= Len(w) /\ s = SubSeq(w, 1, Len(s))

\* C1: for one thread creating, cloning and dropping references to an id,
\* get(id) returns a view as long as fewer references were dropped than
\* 1 + the number of clones (the caller still holds one), and reports
\* absence exactly when all of them were dropped.
C1_PresentWhileReferenced ==
    \A id \in Ids :
        /\ ret[1] = <<"view", id>> => handles[id] > 0
        /\ (ret[1] = <<"absent", id>> /\ InSlab(id_to_idx(id))) => handles[id] = 0

\* C2: with threads cloning and dropping concurrently, a slot on which no
\* drop is under way is occupied exactly while a reference to it is
\* outstanding: it is reclaimed with the last reference, not before.
C2_ReclaimedWithLastReference ==
    \A id \in Ids :
        (InSlab(id_to_idx(id)) /\ ~Dropping(id))
            => (slab[id].span = "Full" <=> handles[id] > 0)

\* C3: a new_span that returns id filled a slot that was not occupied (empty,
\* or not yet in the slab), the slot now holds the span it created, and no
\* other slot was touched.
C3_FillsOnlyVacantSlot ==
    [][\A t \in Threads :
          NewSpanReturns(t) =>
            LET id == ret'[t][2] IN
            /\ id \in Ids
            /\ ~read_slot(id_to_idx(id))
            /\ InSlab(id_to_idx(id)) => Len(slab') = Len(slab)
            /\ ~InSlab(id_to_idx(id)) => (id = Len(slab) + 1 /\ Len(slab') = id)
            /\ slab'[id].span = "Full"
            /\ slab'[id].parent = loc[t].parent
            /\ slab'[id].rc = 1
            /\ \A j \in 1..Len(slab) : j # id => slab'[j] = slab[j]]_vars

\* C3, its case: a thread's snapshot of the head names a slot that another
\* thread's new_span has filled since.
C3_Witness ==
    \E t \in Threads, u \in Threads :
        /\ t # u
        /\ pc[t] = "ns_try"
        /\ ret[u] = <<"filled", idx_to_id(loc[t].head)>>
        /\ read_slot(loc[t].head)

\* C4: in a sequential run new_span returns the id of the most recently
\* emptied slot when there is an empty slot, leaving the slab length as it
\* is, and appends a slot only when there is none.
C4_ReusesMostRecentlyEmptied ==
    [][NewSpanReturns(1) =>
          IF emptied # <<>>
          THEN /\ ret'[1] = <<"filled", idx_to_id(Last(emptied))>>
               /\ Len(slab') = Len(slab)
          ELSE /\ ret'[1] = <<"grown", idx_to_id(Len(slab))>>
               /\ Len(slab') = Len(slab) + 1]_vars

\* C4, its case: a slot was reused while an older empty slot is left.
C4_Witness ==
    /\ Idle(1)
    /\ ret[1][1] = "filled"
    /\ emptied # <<>>
    /\ idx_to_id(Last(emptied)) < ret[1][2]

\* C5: a visit_spans that returned Ok invoked the callback once for each
\* span of the parent chain of the top of CONTEXT, root first and the
\* current span last, and not at all when no span is entered.
C5_VisitsRootToLeaf ==
    (Idle(1) /\ ret[1][1] = "ok") =>
        IF ctx[1] = <<>> THEN visited[1] = <<>>
        ELSE /\ ret[1][2] = Last(ctx[1])
             /\ visited[1] = Chain(Last(ctx[1]), MaxSlab)

\* C5, its case: R, A (parent R) and B (parent A) entered in that order,
\* visited as R, A, B.
C5_Witness ==
    /\ Idle(1)
    /\ ret[1][1] = "ok"
    /\ Len(ctx[1]) = 3
    /\ visited[1] = ctx[1]
    /\ slab[ctx[1][1]].parent = NoId
    /\ slab[ctx[1][2]].parent = ctx[1][1]
    /\ slab[ctx[1][3]].parent = ctx[1][2]

\* C6: once the callback has returned an error for a span, visit_spans is
\* over and has returned that error: the callbacks made are the chain from
\* the root down to the failing span, and none closer to the leaf.
C6_ShortCircuitsOnError ==
    ret[1][1] = "err" =>
        /\ Idle(1)
        /\ views[1] = <<>>
        /\ visited[1] # <<>>
        /\ Last(visited[1]) = ret[1][2]
        /\ IsPrefix(visited[1], Chain(Last(ctx[1]), MaxSlab))

\* C6, its case: the callback failed for a span that is not the current one.
C6_Witness ==
    /\ ret[1][1] = "err"
    /\ ctx[1] # <<>>
    /\ Len(visited[1]) < Len(Chain(Last(ctx[1]), MaxSlab))

\* C7: a push(id) that directly follows a push(id) of the same thread adds
\* no stack entry and takes no reference.
C7_SecondPushIsNoOp ==
    [][\A id \in Ids :
          (ret[1] \in {<<"pushed", id>>, <<"push_dup", id>>} /\ Push(1, id))
             => UNCHANGED <<ctx, slab, next, handles>>]_vars

\* C7, its case: id was pushed again while on top of the stack.
C7_Witness ==
    \E id \in Ids :
        /\ ret[1] = <<"push_dup", id>>
        /\ ctx[1] # <<>>
        /\ Last(ctx[1]) = id

\* C8 as stated: push(id) does nothing only when id is the top of the stack;
\* in every other case, also when id is deeper in the stack, it pushes id.
C8_PushesUnlessTop ==
    [][\A id \in Ids :
          Push(1, id) =>
            IF ctx[1] # <<>> /\ Last(ctx[1]) = id
            THEN UNCHANGED <<ctx, slab>>
            ELSE ctx'[1] = Append(ctx[1], id)]_vars

\* C8, amended: push(id) does nothing when id is anywhere in the stack;
\* otherwise it calls clone_span(id), which changes the count of id and no
\* other slot, and pushes id on top.
C8_PushesUnlessEntered ==
    [][\A id \in Ids :
          Push(1, id) =>
            IF id \in Range(ctx[1])
            THEN UNCHANGED <<ctx, slab>>
            ELSE /\ ctx'[1] = Append(ctx[1], id)
                 /\ slab'[id].rc # slab[id].rc
                 /\ \A j \in 1..Len(slab) : j # id => slab'[j] = slab[j]]_vars

\* C8, its case: id was pushed while deeper in the stack, and ignored.
C8_Witness ==
    \E id \in Ids :
        /\ ret[1] = <<"push_dup", id>>
        /\ id \in Range(ctx[1])
        /\ Last(ctx[1]) # id

\* C9: pop(expected_id) when expected_id is not the top of the stack, or the
\* stack is empty, changes neither the stack nor a slot nor the head, and
\* drops nothing.
C9_PopMismatchIsNoOp ==
    [][\A id \in Ids :
          (Pop(1, id) /\ (ctx[1] = <<>> \/ Last(ctx[1]) # id))
             => UNCHANGED <<ctx, slab, next, calls, pc>>]_vars

\* C9, its case: an id that is in the stack but not on top was popped.
C9_Witness ==
    \E id \in Ids :
        /\ ret[1] = <<"pop_none", id>>
        /\ id \in Range(ctx[1])
        /\ Last(ctx[1]) # id

\* C10: record on an id whose slot is empty returns without a change to any
\* slot, field buffer or the head.
C10_RecordOnVacantIsNoOp ==
    [][\A id \in Ids, k \in 0..1 :
          (RecordFields(1, id, k) /\ InSlab(id_to_idx(id)) /\ slab[id].span = "Empty")
             => (UNCHANGED <<slab, next>> /\ ret'[1] = <<"recorded", id>>)]_vars

\* C10, its case: fields were recorded on a reclaimed id.
C10_Witness ==
    \E id \in Ids :
        /\ ret[1] = <<"recorded", id>>
        /\ InSlab(id_to_idx(id))
        /\ slab[id].span = "Empty"

\* No thread is inside an operation.
Quiescent == \A t \in Threads : Idle(t)

\* The references to id that are outstanding: those callers hold, the
\* entries of the threads' stacks, and the Data of its children.
StackRefs(id) ==
    Cardinality({<<t, i>> \in Threads \X (1..MaxSlab) : i <= Len(ctx[t]) /\ ctx[t][i] = id})

ChildRefs(id) ==
    Cardinality({c \in 1..Len(slab) : slab[c].span = "Full" /\ slab[c].parent = id})

Refs(id) == handles[id] + StackRefs(id) + ChildRefs(id)

\* C13: every id on a thread's active stack is live: its slot is occupied
\* and its reference count is greater than zero.
C13_EnteredSpansAreLive ==
    \A t \in Threads : \A i \in 1..Len(ctx[t]) :
        /\ read_slot(id_to_idx(ctx[t][i]))
        /\ slab[ctx[t][i]].rc > 0

\* C14: while a span whose Data names parent P is occupied, the slot of P is
\* occupied with a reference count greater than zero.
C14_ParentOutlivesChild ==
    \A c \in 1..Len(slab) :
        (slab[c].span = "Full" /\ slab[c].parent # NoId)
            => /\ read_slot(id_to_idx(slab[c].parent))
               /\ slab[slab[c].parent].rc > 0

\* C20: between operations the count of an occupied slot equals the number
\* of outstanding references to it (so it has never been taken below zero
\* and wrapped around).
C20_CountEqualsReferences ==
    Quiescent =>
        \A id \in 1..Len(slab) :
            slab[id].span = "Full" => slab[id].rc = Refs(id)

\* The indices met when following the next links from index h, for at most
\* n slots; the walk stops after a slot that is not empty and at an index
\* beyond the slab.
RECURSIVE FreeWalk(_, _)
FreeWalk(h, n) ==
    IF n = 0 \/ ~InSlab(h) THEN <<>>
    ELSE IF slab[idx_to_id(h)].span = "Empty"
         THEN <<h>> \o FreeWalk(slab[idx_to_id(h)].next, n - 1)
         ELSE <<h>>

\* The free list: the walk from the head.
FreeList == FreeWalk(next, Len(slab) + 1)

\* C12: following the next links from the free-list head meets only empty
\* slots, no slot twice, and ends at an index at or beyond the slab length;
\* in particular the head is never the index of an occupied slot.
C12_FreeListWellFormed ==
    /\ next >= 0
    /\ \A i \in 1..Len(FreeList) : slab[idx_to_id(FreeList[i])].span = "Empty"
    /\ Cardinality(Range(FreeList)) = Len(FreeList)
    /\ Len(FreeList) <= Len(slab)

\* C12, its case: the free list holds two slots.
C12_Witness ==
    /\ Len(FreeList) = 2
    /\ \A i \in 1..2 : slab[idx_to_id(FreeList[i])].span = "Empty"

\* Slab::remove returns in this step (to drop_span).
RemoveReturns(t) ==
    /\ pc[t] = "drop"
    /\ Top(t).at \in {"rm_replace", "rm_cas"}
    /\ \/ Len(calls'[t]) < Len(calls[t])
       \/ calls'[t][Len(calls[t])].at = "after_ok"

\* C15: Slab::remove returns only once it has installed the index of the
\* slot as the free-list head: the slot is then empty, points to the
\* previous head, and its field buffer is cleared.
C15_RemoveLinksTheSlot ==
    [][\A t \in Threads :
          RemoveReturns(t) =>
            LET id == idx_to_id(Top(t).idx) IN
            /\ next' = Top(t).idx
            /\ slab'[id].span = "Empty"
            /\ slab'[id].next = next
            /\ slab'[id].fields = 0]_vars

\* C16: at the moment new_span appends a slot the free-list head is at or
\* beyond the slab length: no empty slot is reachable from the head, and
\* storing the new length as the head discards no entry of the free list.
C16_GrowsOnlyWhenNoneFree ==
    [][\A t \in Threads :
          (pc[t] = "ns_grow" /\ Len(slab') = Len(slab) + 1)
             => (next >= Len(slab) /\ FreeList = <<>>)]_vars

\* C17: clone_span on an id whose slot is empty or that is beyond the slab,
\* in a build without debug assertions or on an unwinding thread, does not
\* panic, changes no slot and no count, and returns the id.
C17_StaleCloneIsTolerated ==
    [][\A id \in Ids :
          CloneStale(1, id, FALSE)
             => (ret'[1] = <<"cloned", id>> /\ UNCHANGED <<slab, next>>)]_vars

\* Thread t holds a read-view of id before and after the step.
ViewAlive(t, id) == Held(views[t], id) > 0 /\ Held(views'[t], id) > 0

\* C18: while a read-view returned by get(id) is alive the slot of id stays
\* occupied, with the same parent and field buffer, whatever the other
\* threads record or reclaim; and a get of another occupied slot that no
\* writer holds returns a view.
C18_ViewedSlotIsStable ==
    [][/\ \A t \in Threads, id \in Ids :
            ViewAlive(t, id) =>
               /\ slab[id].span = "Full"
               /\ slab'[id].span = "Full"
               /\ slab'[id].parent = slab[id].parent
               /\ slab'[id].fields = slab[id].fields
       /\ \A t \in Threads, u \in Threads, id \in Ids, j \in Ids :
            (u # t /\ j # id /\ ViewAlive(t, id) /\ Get(u, j) /\ read_slot(id_to_idx(j)))
               => ret'[u] = <<"view", j>>]_vars

\* C18, its case: a thread holds a view of a slot while another thread's
\* reclamation of that slot waits in Slab::remove for the slot lock, and
\* after a record on it was requested.
C18_Witness ==
    \E t \in Threads, u \in Threads :
        /\ pc[t] = "view"
        /\ pc[u] = "drop"
        /\ Top(u).at = "rm_replace"
        /\ views[t] = <<idx_to_id(Top(u).idx)>>
        /\ slab[idx_to_id(Top(u).idx)].span = "Full"
        /\ ~CanWrite(idx_to_id(Top(u).idx))

\* The slot lock thread t is about to take with a call that waits:
\* slot.read() in drop_span (span.rs 377) and in read_slot for the parent of
\* a visited span (span.rs 537), slot.write() in Slab::remove (span.rs 553)
\* and in write_slot for record (span.rs 530).  <<"none", 0>> otherwise.
Wants(t) ==
    IF pc[t] = "drop" /\ Top(t).at = "dropref" /\ InSlab(Top(t).idx)
    THEN <<"read", idx_to_id(Top(t).idx)>>
    ELSE IF pc[t] = "drop" /\ Top(t).at = "rm_replace"
    THEN <<"write", idx_to_id(Top(t).idx)>>
    ELSE IF pc[t] = "record" /\ InSlab(loc[t].head)
    THEN <<"write", idx_to_id(loc[t].head)>>
    ELSE IF /\ pc[t] = "v_up"
            /\ slab[Last(views[t])].parent # NoId
            /\ Len(views[t]) > 1 => slab[Last(views[t])].parent # views[t][Len(views[t]) - 1]
            /\ InSlab(id_to_idx(slab[Last(views[t])].parent))
    THEN <<"read", slab[Last(views[t])].parent>>
    ELSE <<"none", 0>>

\* The threads that keep t from taking the lock it wants: the writer of the
\* slot; for a write, also the readers of the slot; for a read, also the
\* threads waiting to write the slot (a lock that prefers writers turns new
\* readers away while a writer waits).  t itself is among them when it holds
\* the lock in a conflicting mode.
Blockers(t) ==
    LET id == Wants(t)[2] IN
    IF Wants(t)[1] = "none" THEN {}
    ELSE {u \in Threads : wlock[id] = u}
         \cup (IF Wants(t)[1] = "write"
               THEN {u \in Threads : Held(views[u], id) > 0}
               ELSE {u \in Threads \ {t} : Wants(u) = <<"write", id>>})

\* C11: no deadlock: in every reachable state there is no nonempty set of
\* threads each of which waits for a slot lock that a thread of the set
\* holds (or, under writer preference, waits to write).  The structural lock
\* is never waited for by a writer, and its readers hold it shared.
C11_NoWaitCycle ==
    \A S \in SUBSET Threads :
        S # {} => \E t \in S : Blockers(t) \cap S = {}

\* C11, its case: a thread destroying a child holds the child's slot for
\* writing and wants to read the parent's slot, a second thread waits to
\* write the parent's slot, and a third holds a view of it.
C11_Witness ==
    /\ pc[1] = "drop"
    /\ Len(calls[1]) = 2
    /\ wlock[idx_to_id(calls[1][1].idx)] = 1
    /\ Blockers(1) = {2}
    /\ Blockers(2) = {3}

\* C19: every operation is finite: under fair scheduling, with finitely many
\* operations and no read-view left alive, a thread that is inside new_span
\* or drop_span eventually returns from it.
C19_OperationsReturn ==
    \A t \in Workers : (pc[t] # "idle") ~> (pc[t] = "idle")

=============================================================================
